---------------------------- MODULE Spec2Model ----------------------------
(***************************************************************************)
(* A model of llvm/lib/Analysis/IR2Vec.cpp: the Embedder (per-function     *)
(* instruction / basic-block / function vectors, with its caches) and the  *)
(* vocabulary provider IR2VecVocabAnalysis (loading, validation, merge).   *)
(*                                                                         *)
(* Embedding elements are doubles in the source.  They are modelled as     *)
(* integers: every property below is about which terms are added, how      *)
(* often, and in which map they are stored, never about rounding.          *)
(***************************************************************************)
EXTENDS Integers, Sequences, FiniteSets, TLC

\* ------------------------------------------------------------------ bounds
MaxBlocks == 3      \* basic blocks of the function an Embedder is bound to
MaxDim == 2         \* largest vocabulary dimension
MaxRequests == 3    \* requests made on one Embedder in one behaviour
MaxRuns == 2        \* runs of the vocabulary analysis in one behaviour

\* ------------------------------------------------------------- Embedding
\* Embedding(Dimension, 0)
ZeroEmbedding(d) == [i \in 1..d |-> 0]

\* Embedding::operator+= : element-wise over this->size() elements
EmbeddingPlus(a, b) == [i \in 1..Len(a) |-> a[i] + b[i]]

\* ------------------------------------------------------- the IR (input)
\* Type ids of the host IR; the predicates are those getTypeEmbedding asks.
TypeIDs == {"void", "float", "integer", "function", "struct", "emptyStruct",
            "array", "emptyArray", "pointer", "vector", "label", "token",
            "metadata", "x86_amx"}

isVoidTy(t) == t = "void"
isFloatingPointTy(t) == t = "float"
isIntegerTy(t) == t = "integer"
isFunctionTy(t) == t = "function"
isStructTy(t) == t \in {"struct", "emptyStruct"}
isArrayTy(t) == t \in {"array", "emptyArray"}
isPointerTy(t) == t = "pointer"
isVectorTy(t) == t = "vector"
isEmptyTy(t) == t \in {"emptyStruct", "emptyArray"}
isLabelTy(t) == t = "label"
isTokenTy(t) == t = "token"
isMetadataTy(t) == t = "metadata"

\* An operand as getOperandEmbedding sees it: isa<Function>(Op),
\* isa<PointerType>(Op->getType()), isa<Constant>(Op).
OpFunction == [isFunction |-> TRUE, isPointer |-> TRUE, isConstant |-> TRUE]
OpNull == [isFunction |-> FALSE, isPointer |-> TRUE, isConstant |-> TRUE]
OpPtrVar == [isFunction |-> FALSE, isPointer |-> TRUE, isConstant |-> FALSE]
OpConst == [isFunction |-> FALSE, isPointer |-> FALSE, isConstant |-> TRUE]
OpVar == [isFunction |-> FALSE, isPointer |-> FALSE, isConstant |-> FALSE]

Inst(opc, ty, ops) ==
    [opcode |-> opc, type |-> ty, operands |-> ops, debug |-> FALSE, pseudo |-> FALSE]
DbgInst ==
    [opcode |-> "call", type |-> "void", operands |-> <<OpFunction>>,
     debug |-> TRUE, pseudo |-> FALSE]
PseudoInst ==
    [opcode |-> "call", type |-> "void", operands |-> <<OpFunction>>,
     debug |-> FALSE, pseudo |-> TRUE]

\* The instruction lists a basic block of an input function can hold.
BlockBodies ==
    << <<Inst("add", "integer", <<OpVar, OpVar>>)>>,
       <<DbgInst,
         Inst("call", "void", <<OpNull, OpConst, OpFunction>>),
         Inst("foo", "x86_amx", <<OpPtrVar>>)>>,
       <<Inst("add", "integer", <<OpVar, OpConst>>),
         PseudoInst,
         Inst("ret", "void", << >>)>> >>

Blocks == 1..MaxBlocks
EntryBlock == 1

\* Control-flow edges an input function may have: the chain i -> i+1 and
\* three fixed extra edges (a skip, a back edge to the entry, a cross edge).
CandidateEdges ==
    {<<i, i + 1>> : i \in 1..(MaxBlocks - 1)} \cup {<<1, 3>>, <<2, 1>>, <<3, 2>>}

\* The input functions: an external declaration (no blocks), or a body of
\* MaxBlocks blocks with any subset of the candidate edges, block b holding
\* the body BlockBodies[((b + k) % 3) + 1] for a rotation k.
Declaration == [isDeclaration |-> TRUE, edges |-> {}, rot |-> 0]
Functions ==
    {Declaration} \cup
    {[isDeclaration |-> FALSE, edges |-> E, rot |-> k] :
        E \in SUBSET CandidateEdges, k \in 0..1}

BlocksOf(Fn) == IF Fn.isDeclaration THEN {} ELSE Blocks
BodyOf(Fn, b) == BlockBodies[((b + Fn.rot) % Len(BlockBodies)) + 1]
\* successors(BB), in terminator order (ascending block number here)
SuccessorsOf(Fn, b) == {c \in Blocks : <<b, c>> \in Fn.edges}

\* -------------------------------------------------------- the vocabulary
OpcodeKeys == <<"add", "call", "ret">>
TypeKeys == <<"voidTy", "floatTy", "integerTy", "functionTy", "structTy",
              "arrayTy", "pointerTy", "vectorTy", "emptyTy", "labelTy",
              "tokenTy", "metadataTy", "unknownTy">>
ArgKeys == <<"function", "pointer", "constant", "variable">>
KeySeq == OpcodeKeys \o TypeKeys \o ArgKeys
AllKeys == {KeySeq[i] : i \in 1..Len(KeySeq)}
KeyIndex(k) == CHOOSE i \in 1..Len(KeySeq) : KeySeq[i] = k

RECURSIVE Power(_, _)
Power(x, n) == IF n = 0 THEN 1 ELSE x * Power(x, n - 1)

\* The vector a vocabulary of dimension d holds for key k: distinct keys get
\* distinct vectors, so that a dropped or doubled term changes a sum.
BaseEntry(k, d) == [i \in 1..d |-> Power(KeyIndex(k), i)]

\* Keys absent from an input vocabulary ("foo" is absent from all of them).
MissingChoices == {{}, {"add", "variable"}, {"voidTy", "pointer", "unknownTy"}}
Vocabularies ==
    {[k \in AllKeys \ M |-> BaseEntry(k, d)] :
        M \in MissingChoices, d \in {1, MaxDim}}


\* ------------------------------------------------------- Embedder: state
VARIABLES
    F,                \* Embedder::F, the function the Embedder is bound to
    Vocabulary,       \* Embedder::Vocabulary (const reference, never written)
    Dimension,        \* Embedder::Dimension
    InstVecMap,       \* Embedder::InstVecMap : <<block, index>> -> Embedding
    BBVecMap,         \* Embedder::BBVecMap   : block -> Embedding
    FuncVector,       \* Embedder::FuncVector
    VocabMissCounter, \* STATISTIC(VocabMissCounter)
    lastRequest,      \* the request served last: [op, arg]
    ret,              \* the value that request returned
    nRequests         \* number of requests served so far

embVars == <<F, Vocabulary, Dimension, InstVecMap, BBVecMap, FuncVector,
             VocabMissCounter, lastRequest, ret, nRequests>>

EmptyMap == [x \in {} |-> 0]
MapPut(m, k, v) == [x \in (DOMAIN m) \cup {k} |-> IF x = k THEN v ELSE m[x]]

\* The mutable members of the Embedder (all are `mutable`, the methods const).
EmbedderState ==
    [inst |-> InstVecMap, bb |-> BBVecMap, fv |-> FuncVector,
     miss |-> VocabMissCounter]

\* Embedder::Embedder : Dimension(Vocabulary.begin()->second.size());
\* std::map iterates in key order, so begin() is the least key.  All entries
\* of a vocabulary have one length, so any entry gives that length.
EmbedderDimension(V) == Len(V[CHOOSE k \in DOMAIN V : TRUE])

\* SymbolicEmbedder's constructor (in the header): FuncVector = Embedding(Dimension, 0)
InitialFuncVector(d) == ZeroEmbedding(d)

\* lookupVocab without the ++VocabMissCounter on a miss
lookupVocab_NoCount(Key) ==
    IF Key \in DOMAIN Vocabulary
    THEN [value |-> Vocabulary[Key], misses |-> 0]
    ELSE [value |-> ZeroEmbedding(Dimension), misses |-> 0]

\* Embedder::lookupVocab : the vector returned and the misses it counted
lookupVocab(Key) ==
    LET Vec == ZeroEmbedding(Dimension) IN
    IF Key \in DOMAIN Vocabulary
    THEN [value |-> Vocabulary[Key], misses |-> 0]
    ELSE [value |-> Vec, misses |-> 1]

\* SymbolicEmbedder::getTypeEmbedding : first matching category wins
TypeCategory(Ty) ==
    IF isVoidTy(Ty) THEN "voidTy"
    ELSE IF isFloatingPointTy(Ty) THEN "floatTy"
    ELSE IF isIntegerTy(Ty) THEN "integerTy"
    ELSE IF isFunctionTy(Ty) THEN "functionTy"
    ELSE IF isStructTy(Ty) THEN "structTy"
    ELSE IF isArrayTy(Ty) THEN "arrayTy"
    ELSE IF isPointerTy(Ty) THEN "pointerTy"
    ELSE IF isVectorTy(Ty) THEN "vectorTy"
    ELSE IF isEmptyTy(Ty) THEN "emptyTy"
    ELSE IF isLabelTy(Ty) THEN "labelTy"
    ELSE IF isTokenTy(Ty) THEN "tokenTy"
    ELSE IF isMetadataTy(Ty) THEN "metadataTy"
    ELSE "unknownTy"
getTypeEmbedding(Ty) == lookupVocab(TypeCategory(Ty))

\* getOperandEmbedding with the constant test before the pointer test
OperandCategory_ConstantFirst(Op) ==
    IF Op.isFunction THEN "function"
    ELSE IF Op.isConstant THEN "constant"
    ELSE IF Op.isPointer THEN "pointer"
    ELSE "variable"

\* SymbolicEmbedder::getOperandEmbedding : first matching category wins
OperandCategory(Op) ==
    IF Op.isFunction THEN "function"
    ELSE IF Op.isPointer THEN "pointer"
    ELSE IF Op.isConstant THEN "constant"
    ELSE "variable"
getOperandEmbedding(Op) == lookupVocab(OperandCategory(Op))

\* instructionsWithoutDebug(/*SkipPseudoOp=*/false): pseudo instructions kept
IsCounted_KeepPseudo(I) == ~I.debug

\* BB.instructionsWithoutDebug(): debug and pseudo instructions are skipped
IsCounted(I) == ~I.debug /\ ~I.pseudo

\* The operand loop adding each distinct operand once
RECURSIVE AddOperands_Distinct(_, _, _)
AddOperands_Distinct(acc, ops, j) ==
    IF j > Len(ops) THEN acc
    ELSE IF \E i \in 1..(j - 1) : ops[i] = ops[j]
    THEN AddOperands_Distinct(acc, ops, j + 1)
    ELSE LET e == getOperandEmbedding(ops[j]) IN
         AddOperands_Distinct([value |-> EmbeddingPlus(acc.value, e.value),
                               misses |-> acc.misses + e.misses], ops, j + 1)

\* The loop over I.operands() of computeEmbeddings(BB), from operand j on.
RECURSIVE AddOperands(_, _, _)
AddOperands(acc, ops, j) ==
    IF j > Len(ops) THEN acc
    ELSE LET e == getOperandEmbedding(ops[j]) IN
         AddOperands([value |-> EmbeddingPlus(acc.value, e.value),
                      misses |-> acc.misses + e.misses], ops, j + 1)

\* The body of the instruction loop: InstVector of one instruction.
InstVectorOf(I) ==
    LET o == lookupVocab(I.opcode)
        v1 == EmbeddingPlus(ZeroEmbedding(Dimension), o.value)
        t == getTypeEmbedding(I.type)
        v2 == EmbeddingPlus(v1, t.value)
    IN AddOperands([value |-> v2, misses |-> o.misses + t.misses], I.operands, 1)

\* The instruction loop of computeEmbeddings(BB), from instruction i on;
\* st carries the members, bbv the local BBVector.
RECURSIVE InstLoop(_, _, _, _)
InstLoop(st, bbv, b, i) ==
    LET body == BodyOf(F, b) IN
    IF i > Len(body) THEN [st |-> st, bbv |-> bbv]
    ELSE IF ~IsCounted(body[i]) THEN InstLoop(st, bbv, b, i + 1)
    ELSE LET iv == InstVectorOf(body[i]) IN
         InstLoop([st EXCEPT !.inst = MapPut(st.inst, <<b, i>>, iv.value),
                            !.miss = st.miss + iv.misses],
                  EmbeddingPlus(bbv, iv.value), b, i + 1)

\* SymbolicEmbedder::computeEmbeddings(const BasicBlock &BB)
computeEmbeddingsBB(st, b) ==
    LET r == InstLoop(st, ZeroEmbedding(Dimension), b, 1) IN
    [r.st EXCEPT !.bb = MapPut(r.st.bb, b, r.bbv)]

\* depth_first(&F): pre-order from the entry block, each block once.
RECURSIVE SortedSeq(_)
SortedSeq(S) ==
    IF S = {} THEN << >>
    ELSE LET m == CHOOSE x \in S : \A y \in S : x <= y
         IN <<m>> \o SortedSeq(S \ {m})

RECURSIVE DFVisit(_, _, _), DFChildren(_, _, _)
DFVisit(Fn, n, order) ==
    IF \E i \in 1..Len(order) : order[i] = n THEN order
    ELSE DFChildren(Fn, SortedSeq(SuccessorsOf(Fn, n)), Append(order, n))
DFChildren(Fn, cs, order) ==
    IF cs = << >> THEN order
    ELSE DFChildren(Fn, Tail(cs), DFVisit(Fn, Head(cs), order))

depth_first(Fn) == DFVisit(Fn, EntryBlock, << >>)

\* The loop of computeEmbeddings() over the blocks of `order`, from j on.
RECURSIVE BlockLoop(_, _, _)
BlockLoop(st, order, j) ==
    IF j > Len(order) THEN st
    ELSE LET s1 == computeEmbeddingsBB(st, order[j])
             s2 == [s1 EXCEPT !.fv = EmbeddingPlus(s1.fv, s1.bb[order[j]])]
         IN BlockLoop(s2, order, j + 1)

\* computeEmbeddings() without the F.isDeclaration() early return
computeEmbeddings_NoDeclCheck(st) == BlockLoop(st, depth_first(F), 1)

\* SymbolicEmbedder::computeEmbeddings()
computeEmbeddings(st) ==
    IF F.isDeclaration THEN st
    ELSE BlockLoop(st, depth_first(F), 1)

\* ----------------------------------------------------- Embedder: requests
Commit(st) ==
    /\ InstVecMap' = st.inst
    /\ BBVecMap' = st.bb
    /\ FuncVector' = st.fv
    /\ VocabMissCounter' = st.miss

Served(op, arg, value) ==
    /\ lastRequest' = [op |-> op, arg |-> arg]
    /\ ret' = value
    /\ nRequests' = nRequests + 1
    /\ UNCHANGED <<F, Vocabulary, Dimension>>

\* getInstVecMap without the InstVecMap.empty() test
InstVecMapAfter_Always(st) == computeEmbeddings(st)

\* Embedder::getInstVecMap
InstVecMapAfter(st) == IF DOMAIN st.inst = {} THEN computeEmbeddings(st) ELSE st
getInstVecMap ==
    /\ nRequests < MaxRequests
    /\ LET st == InstVecMapAfter(EmbedderState) IN
       Commit(st) /\ Served("getInstVecMap", 0, st.inst)

\* Embedder::getBBVecMap
BBVecMapAfter(st) == IF DOMAIN st.bb = {} THEN computeEmbeddings(st) ELSE st
getBBVecMap ==
    /\ nRequests < MaxRequests
    /\ LET st == BBVecMapAfter(EmbedderState) IN
       Commit(st) /\ Served("getBBVecMap", 0, st.bb)

\* Embedder::getBBVector
BBVectorAfter(st, b) == IF b \in DOMAIN st.bb THEN st ELSE computeEmbeddingsBB(st, b)
getBBVector ==
    /\ nRequests < MaxRequests
    /\ \E b \in BlocksOf(F) :
         LET st == BBVectorAfter(EmbedderState, b) IN
         Commit(st) /\ Served("getBBVector", b, st.bb[b])

\* Embedder::getFunctionVector
FunctionVectorAfter(st) == computeEmbeddings(st)
getFunctionVector ==
    /\ nRequests < MaxRequests
    /\ LET st == FunctionVectorAfter(EmbedderState) IN
       Commit(st) /\ Served("getFunctionVector", 0, st.fv)

\* A direct call of Embedder::lookupVocab(Key)
LookupKeys == {"add", "foo"}
LookupVocab ==
    /\ nRequests < MaxRequests
    /\ \E Key \in LookupKeys :
         LET r == lookupVocab(Key) IN
         /\ VocabMissCounter' = VocabMissCounter + r.misses
         /\ Served("lookupVocab", Key, r.value)
         /\ UNCHANGED <<InstVecMap, BBVecMap, FuncVector>>

\* A direct call of SymbolicEmbedder::getOperandEmbedding(Op), for an operand
\* with any answers to the three isa<> tests
OperandValues == [isFunction : BOOLEAN, isPointer : BOOLEAN, isConstant : BOOLEAN]
GetOperandEmbedding ==
    /\ nRequests < MaxRequests
    /\ \E Op \in OperandValues :
         LET r == getOperandEmbedding(Op) IN
         /\ VocabMissCounter' = VocabMissCounter + r.misses
         /\ Served("getOperandEmbedding", Op, r.value)
         /\ UNCHANGED <<InstVecMap, BBVecMap, FuncVector>>

\* Embedder::create(IR2VecKind::Symbolic, F, Vocabulary): a fresh Embedder
EmbedderInit ==
    /\ F \in Functions
    /\ Vocabulary \in Vocabularies
    /\ Dimension = EmbedderDimension(Vocabulary)
    /\ InstVecMap = EmptyMap
    /\ BBVecMap = EmptyMap
    /\ FuncVector = InitialFuncVector(Dimension)
    /\ VocabMissCounter = 0
    /\ lastRequest = [op |-> "none", arg |-> 0]
    /\ ret = 0
    /\ nRequests = 0

\* --------------------------------------- IR2VecVocabAnalysis: the inputs
\* Numbers of the provider's vocabularies are kept in tenths, so that the
\* weights 1.0, 0.5 and 0.2 and every product are integers.
SectionNames == <<"Opcodes", "Types", "Arguments">>
SectionNo(s) == CHOOSE i \in 1..3 : SectionNames[i] = s

\* std::map<std::string, Embedding> iterates in key order.
ProviderKeyOrder == <<"add", "common", "integerTy", "variable">>
KeyRank(k) == CHOOSE i \in 1..Len(ProviderKeyOrder) : ProviderKeyOrder[i] = k
OwnKey(s) == IF s = "Opcodes" THEN "add" ELSE IF s = "Types" THEN "integerTy" ELSE "variable"

\* The array a document gives key k in section s, when it has length len:
\* Opcodes.add of length 2 is [2, 4].
EntryValue(s, k, len) ==
    [i \in 1..len |-> 2 * i * SectionNo(s) + (IF k = "common" THEN 1 ELSE 0)]

LenChoices == {0, MaxDim - 1, MaxDim}
SectionMaps(s) ==
    UNION {{[k \in K |-> EntryValue(s, k, len[k])] : len \in [K -> LenChoices]} :
              K \in SUBSET {OwnKey(s), "common"}}

\* A section of the root object: absent, present but not an object of
\* number arrays, or an object of number arrays (possibly with no entry).
AbsentSection == [state |-> "absent", entries |-> EmptyMap]
MalformedSection == [state |-> "malformed", entries |-> EmptyMap]
SectionValues(s) ==
    {AbsentSection, MalformedSection} \cup
    {[state |-> "ok", entries |-> m] : m \in SectionMaps(s)}

NoSections ==
    [Opcodes |-> AbsentSection, Types |-> AbsentSection, Arguments |-> AbsentSection]
UnreadableFile == [kind |-> "unreadable", sections |-> NoSections]
NotJSON == [kind |-> "notJSON", sections |-> NoSections]
NotObject == [kind |-> "notObject", sections |-> NoSections]
Documents ==
    {UnreadableFile, NotJSON, NotObject} \cup
    {[kind |-> "object",
      sections |-> [Opcodes |-> o, Types |-> t, Arguments |-> a]] :
        o \in SectionValues("Opcodes"), t \in SectionValues("Types"),
        a \in SectionValues("Arguments")}

\* cl::opt OpcWeight, TypeWeight, ArgWeight in tenths: the defaults and one
\* other setting.
DefaultWeights == [opc |-> 10, type |-> 5, arg |-> 2]
WeightChoices == {DefaultWeights, [opc |-> 5, type |-> 20, arg |-> 10]}

\* A vocabulary handed to IR2VecVocabAnalysis's constructor.
SuppliedVocabulary == [k \in {"add", "integerTy"} |-> EntryValue("Opcodes", k, MaxDim)]

\* ---------------------------------------- IR2VecVocabAnalysis: the state
VARIABLES
    VocabFile,          \* cl::opt VocabFile
    FileContent,        \* what the file at VocabFile holds
    Weights,            \* cl::opt OpcWeight, TypeWeight, ArgWeight
    AnalysisVocabulary, \* IR2VecVocabAnalysis::Vocabulary
    Result,             \* the IR2VecVocabResult the last run returned
    Diagnostics,        \* errors emitted to the LLVMContext
    FileReads,          \* calls of MemoryBuffer::getFileOrSTDIN
    lastRun,            \* how the last run ended
    nRuns,              \* number of runs so far
    consumer            \* the last call on Result: [call, outcome, vocab, dim]

provVars == <<VocabFile, FileContent, Weights, AnalysisVocabulary, Result,
              Diagnostics, FileReads, lastRun, nRuns, consumer>>

\* IR2VecVocabResult() and IR2VecVocabResult(Vocab &&)
NoResult == [present |-> FALSE, valid |-> FALSE, vocab |-> EmptyMap]
InvalidResult == [present |-> TRUE, valid |-> FALSE, vocab |-> EmptyMap]
ValidResult(V) == [present |-> TRUE, valid |-> TRUE, vocab |-> V]

\* TargetVocab.begin(): the entry with the least key
LeastKey(m) == CHOOSE k \in DOMAIN m : \A j \in DOMAIN m : KeyRank(k) <= KeyRank(j)

\* What TargetVocab.begin()->second.size() gives when TargetVocab is empty:
\* begin() == end() is dereferenced, which is undefined.  A build either
\* aborts (checked iterators) or reads some number.
NotRead == [kind |-> "notRead", dim |-> 0]
EndDerefOutcomes ==
    {[kind |-> "abort", dim |-> 0]} \cup
    {[kind |-> "value", dim |-> d] : d \in 0..(MaxDim + 1)}

ParseError(e) == [err |-> e, aborted |-> FALSE, vocab |-> EmptyMap, dim |-> 0]

\* IR2VecVocabAnalysis::parseVocabSection; u is the outcome of the
\* undefined read, used only when the section has no entry.
parseVocabSection(Key, Doc, u) ==
    IF Doc.kind # "object" THEN ParseError("JSON root is not an object")
    ELSE LET SectionValue == Doc.sections[Key] IN
    IF SectionValue.state = "absent" THEN ParseError("Missing section")
    ELSE IF SectionValue.state = "malformed" THEN ParseError("Unable to parse section")
    ELSE LET TargetVocab == SectionValue.entries IN
    IF DOMAIN TargetVocab = {} /\ u.kind = "abort"
    THEN [err |-> "", aborted |-> TRUE, vocab |-> TargetVocab, dim |-> 0]
    ELSE LET Dim == IF DOMAIN TargetVocab = {} THEN u.dim
                    ELSE Len(TargetVocab[LeastKey(TargetVocab)]) IN
    IF Dim = 0 THEN ParseError("Dimension of section is zero")
    ELSE IF ~(\A k \in DOMAIN TargetVocab : Len(TargetVocab[k]) = Dim)
    THEN ParseError("Vectors of section are not of the same dimension")
    ELSE [err |-> "", aborted |-> FALSE, vocab |-> TargetVocab, dim |-> Dim]

\* Embedding::operator*=(double) on every entry (numbers become tenths)
\* scaleVocabSection leaving the section weight out (a factor of 1.0)
scaleVocabSection_Unscaled(Vocab, Weight) ==
    [k \in DOMAIN Vocab |-> [i \in 1..Len(Vocab[k]) |-> Vocab[k][i] * 10]]

\* scaleVocabSection: every element of every entry times the section weight
scaleVocabSection(Vocab, Weight) ==
    [k \in DOMAIN Vocab |-> [i \in 1..Len(Vocab[k]) |-> Vocab[k][i] * Weight]]

\* An insertion that overwrites the value of a key already present
MapInsert_Overwrite(m, n) ==
    [k \in (DOMAIN m) \cup (DOMAIN n) |-> IF k \in DOMAIN n THEN n[k] ELSE m[k]]

\* std::map::insert(first, last): a key already present keeps its value
MapInsert(m, n) ==
    [k \in (DOMAIN m) \cup (DOMAIN n) |-> IF k \in DOMAIN m THEN m[k] ELSE n[k]]

ReadFailed(e, V) == [err |-> e, aborted |-> FALSE, vocabulary |-> V]
ReadAborted(V) == [err |-> "", aborted |-> TRUE, vocabulary |-> V]

\* readVocabulary parsing each section straight into the member Vocabulary
readVocabulary_InsertWhileParsing(u) ==
    LET V0 == AnalysisVocabulary
        Opc == parseVocabSection("Opcodes", FileContent, u["Opcodes"])
        V1 == MapInsert(V0, scaleVocabSection(Opc.vocab, Weights.opc))
        Typ == parseVocabSection("Types", FileContent, u["Types"])
        V2 == MapInsert(V1, scaleVocabSection(Typ.vocab, Weights.type))
        Arg == parseVocabSection("Arguments", FileContent, u["Arguments"])
        V3 == MapInsert(V2, scaleVocabSection(Arg.vocab, Weights.arg))
    IN
    IF FileContent.kind = "unreadable" THEN ReadFailed("file error", V0)
    ELSE IF FileContent.kind = "notJSON" THEN ReadFailed("JSON parse error", V0)
    ELSE IF Opc.aborted THEN ReadAborted(V0)
    ELSE IF Opc.err # "" THEN ReadFailed(Opc.err, V0)
    ELSE IF Typ.aborted THEN ReadAborted(V1)
    ELSE IF Typ.err # "" THEN ReadFailed(Typ.err, V1)
    ELSE IF Arg.aborted THEN ReadAborted(V2)
    ELSE IF Arg.err # "" THEN ReadFailed(Arg.err, V2)
    ELSE IF ~(Opc.dim = Typ.dim /\ Typ.dim = Arg.dim)
    THEN ReadFailed("Vocabulary sections have different dimensions", V3)
    ELSE [err |-> "", aborted |-> FALSE, vocabulary |-> V3]

\* IR2VecVocabAnalysis::readVocabulary: the error it returns ("" for
\* success) and the value it leaves in the member Vocabulary.
readVocabulary(u) ==
    LET V0 == AnalysisVocabulary
        Opc == parseVocabSection("Opcodes", FileContent, u["Opcodes"])
        Typ == parseVocabSection("Types", FileContent, u["Types"])
        Arg == parseVocabSection("Arguments", FileContent, u["Arguments"])
        OpcodeVocab == scaleVocabSection(Opc.vocab, Weights.opc)
        TypeVocab == scaleVocabSection(Typ.vocab, Weights.type)
        ArgVocab == scaleVocabSection(Arg.vocab, Weights.arg)
    IN
    IF FileContent.kind = "unreadable" THEN ReadFailed("file error", V0)
    ELSE IF FileContent.kind = "notJSON" THEN ReadFailed("JSON parse error", V0)
    ELSE IF Opc.aborted THEN ReadAborted(V0)
    ELSE IF Opc.err # "" THEN ReadFailed(Opc.err, V0)
    ELSE IF Typ.aborted THEN ReadAborted(V0)
    ELSE IF Typ.err # "" THEN ReadFailed(Typ.err, V0)
    ELSE IF Arg.aborted THEN ReadAborted(V0)
    ELSE IF Arg.err # "" THEN ReadFailed(Arg.err, V0)
    ELSE IF ~(Opc.dim = Typ.dim /\ Typ.dim = Arg.dim)
    THEN ReadFailed("Vocabulary sections have different dimensions", V0)
    ELSE [err |-> "", aborted |-> FALSE,
          vocabulary |-> MapInsert(MapInsert(MapInsert(V0, OpcodeVocab), TypeVocab),
                                   ArgVocab)]

\* The undefined reads one run can make: one outcome per section that is
\* present, decodable and has no entry; none for the other sections.
IsEmptySection(Doc, s) ==
    /\ Doc.kind = "object"
    /\ Doc.sections[s].state = "ok"
    /\ DOMAIN Doc.sections[s].entries = {}
EndDerefChoices(Doc) ==
    {[Opcodes |-> o, Types |-> t, Arguments |-> a] :
        o \in IF IsEmptySection(Doc, "Opcodes") THEN EndDerefOutcomes ELSE {NotRead},
        t \in IF IsEmptySection(Doc, "Types") THEN EndDerefOutcomes ELSE {NotRead},
        a \in IF IsEmptySection(Doc, "Arguments") THEN EndDerefOutcomes ELSE {NotRead}}

\* No call was made on the current Result yet.
NoCall == [call |-> "none", outcome |-> "none", vocab |-> EmptyMap, dim |-> 0]
\* The process is alive: no abort in a load, no failed assertion.
Alive == lastRun # "aborted" /\ consumer.outcome # "assertion"

\* IR2VecVocabAnalysis::run.  A moved-from std::map is empty.
run ==
    /\ Alive
    /\ ~Result.present
    /\ nRuns < MaxRuns
    /\ nRuns' = nRuns + 1
    /\ UNCHANGED <<VocabFile, FileContent, Weights, consumer>>
    /\ IF DOMAIN AnalysisVocabulary # {}
       THEN /\ Result' = ValidResult(AnalysisVocabulary)
            /\ AnalysisVocabulary' = EmptyMap
            /\ lastRun' = "supplied"
            /\ UNCHANGED <<Diagnostics, FileReads>>
       ELSE IF VocabFile = ""
       THEN /\ Diagnostics' = Append(Diagnostics, "IR2Vec vocabulary file path not specified")
            /\ Result' = InvalidResult
            /\ lastRun' = "noPath"
            /\ UNCHANGED <<AnalysisVocabulary, FileReads>>
       ELSE \E u \in EndDerefChoices(FileContent) :
            LET r == readVocabulary(u) IN
            /\ FileReads' = FileReads + 1
            /\ IF r.aborted
               THEN /\ lastRun' = "aborted"
                    /\ AnalysisVocabulary' = r.vocabulary
                    /\ UNCHANGED <<Result, Diagnostics>>
               ELSE IF r.err # ""
               THEN /\ Diagnostics' = Append(Diagnostics, r.err)
                    /\ Result' = InvalidResult
                    /\ AnalysisVocabulary' = r.vocabulary
                    /\ lastRun' = "loadFailed"
               ELSE /\ Result' = ValidResult(r.vocabulary)
                    /\ AnalysisVocabulary' = EmptyMap
                    /\ lastRun' = "loadOK"
                    /\ UNCHANGED Diagnostics

\* The analysis manager drops the cached result (IR2VecVocabResult::invalidate
\* answered true); the next request runs the analysis again.
invalidate ==
    /\ Alive
    /\ Result.present
    /\ Result' = NoResult
    /\ consumer' = NoCall
    /\ UNCHANGED <<VocabFile, FileContent, Weights, AnalysisVocabulary,
                   Diagnostics, FileReads, lastRun, nRuns>>

\* What a call gives: a failed assertion, a Vocabulary or a dimension
AssertionFailed == [outcome |-> "assertion", vocab |-> EmptyMap, dim |-> 0]
VocabReturned(V) == [outcome |-> "value", vocab |-> V, dim |-> 0]
DimReturned(d) == [outcome |-> "value", vocab |-> EmptyMap, dim |-> d]
Called(call, o) ==
    /\ consumer' = [call |-> call, outcome |-> o.outcome, vocab |-> o.vocab, dim |-> o.dim]
    /\ UNCHANGED <<VocabFile, FileContent, Weights, AnalysisVocabulary, Result,
                   Diagnostics, FileReads, lastRun, nRuns>>

\* getVocabulary without the assert(Valid)
getVocabularyOutcome_NoAssert(R) == VocabReturned(R.vocab)

\* IR2VecVocabResult::getVocabulary: assert(Valid), then the Vocabulary
getVocabularyOutcome(R) ==
    IF ~R.valid THEN AssertionFailed
    ELSE VocabReturned(R.vocab)
getVocabulary ==
    /\ Alive
    /\ Result.present
    /\ consumer.call # "getVocabulary"
    /\ Called("getVocabulary", getVocabularyOutcome(Result))

\* getDimension giving the number of entries
DimensionOf_EntryCount(V) == Cardinality(DOMAIN V)

\* Vocabulary.begin()->second.size() of a non-empty Vocabulary
DimensionOf(V) == Len(V[LeastKey(V)])

\* IR2VecVocabResult::getDimension: assert(Valid), then the length of the
\* first entry; u is the outcome of the undefined read of an empty Vocabulary.
getDimensionOutcome(R, u) ==
    IF ~R.valid THEN AssertionFailed
    ELSE IF DOMAIN R.vocab = {}
    THEN (IF u.kind = "abort" THEN AssertionFailed ELSE DimReturned(u.dim))
    ELSE DimReturned(DimensionOf(R.vocab))
getDimension ==
    /\ Alive
    /\ Result.present
    /\ consumer.call # "getDimension"
    /\ \E u \in IF Result.valid /\ DOMAIN Result.vocab = {}
                THEN EndDerefOutcomes ELSE {NotRead} :
         Called("getDimension", getDimensionOutcome(Result, u))

\* IR2VecVocabAnalysis() or IR2VecVocabAnalysis(Vocab), before the first run
ProviderInit ==
    /\ \/ VocabFile = "" /\ FileContent = UnreadableFile
       \/ VocabFile = "vocab.json" /\ FileContent \in Documents
    /\ Weights \in WeightChoices
    /\ AnalysisVocabulary \in {EmptyMap, SuppliedVocabulary}
    /\ Result = NoResult
    /\ Diagnostics = << >>
    /\ FileReads = 0
    /\ lastRun = "none"
    /\ nRuns = 0
    /\ consumer = NoCall

\* An idle provider, and one fixed Embedder, for the specification of the other
ProviderIdle ==
    /\ VocabFile = "" /\ FileContent = UnreadableFile
    /\ Weights = DefaultWeights
    /\ AnalysisVocabulary = EmptyMap
    /\ Result = NoResult
    /\ Diagnostics = << >>
    /\ FileReads = 0
    /\ lastRun = "none"
    /\ nRuns = 0
    /\ consumer = NoCall
EmbedderIdle ==
    /\ F = Declaration
    /\ Vocabulary = [k \in AllKeys |-> BaseEntry(k, MaxDim)]
    /\ Dimension = EmbedderDimension(Vocabulary)
    /\ InstVecMap = EmptyMap
    /\ BBVecMap = EmptyMap
    /\ FuncVector = InitialFuncVector(Dimension)
    /\ VocabMissCounter = 0
    /\ lastRequest = [op |-> "none", arg |-> 0]
    /\ ret = 0
    /\ nRequests = 0

\* ------------------------------------------------------- specifications
vars == <<embVars, provVars>>

\* One Embedder and the requests made on it.
Init == EmbedderInit /\ ProviderIdle
Next ==
    \/ getInstVecMap /\ UNCHANGED provVars
    \/ getBBVecMap /\ UNCHANGED provVars
    \/ getBBVector /\ UNCHANGED provVars
    \/ getFunctionVector /\ UNCHANGED provVars
    \/ LookupVocab /\ UNCHANGED provVars
Spec == Init /\ [][Next]_vars

\* One Embedder and the operands it is asked to classify.
OperandNext == GetOperandEmbedding /\ UNCHANGED provVars
SpecOperand == Init /\ [][OperandNext]_vars

\* One vocabulary analysis and its runs.
VocabInit == ProviderInit /\ EmbedderIdle
VocabNext ==
    \/ run /\ UNCHANGED embVars
    \/ invalidate /\ UNCHANGED embVars
    \/ getVocabulary /\ UNCHANGED embVars
    \/ getDimension /\ UNCHANGED embVars
SpecVocab == VocabInit /\ [][VocabNext]_vars

\* ------------------------------------------------ Embedder: properties
\* Blocks reachable from the entry block: the least set holding the entry
\* and closed under successors.
RECURSIVE SuccClosure(_, _)
SuccClosure(Fn, S) ==
    LET N == S \cup {c \in Blocks : \E b \in S : <<b, c>> \in Fn.edges}
    IN IF N = S THEN S ELSE SuccClosure(Fn, N)
ReachableBlocks(Fn) ==
    IF Fn.isDeclaration THEN {} ELSE SuccClosure(Fn, {EntryBlock})

\* Sum of g[x] over x in S, for integer-valued g.
RECURSIVE SumOver(_, _)
SumOver(S, g) ==
    IF S = {} THEN 0
    ELSE LET x == CHOOSE y \in S : TRUE IN g[x] + SumOver(S \ {x}, g)

\* Sum of the vectors m[x], x in S, component by component.
VectorSum(S, m) == [c \in 1..Dimension |-> SumOver(S, [x \in S |-> m[x][c]])]

\* The common length of the entries of a vocabulary.
VocabDimension(V) == CHOOSE d \in 0..(MaxDim + 1) : \A k \in DOMAIN V : Len(V[k]) = d

\* The vocabulary's vector for k, or zeros when k is absent.
VocabValue(k) ==
    IF k \in DOMAIN Vocabulary THEN Vocabulary[k] ELSE [c \in 1..Dimension |-> 0]

\* Instruction keys <<b, i>> of block b that are neither debug nor pseudo.
PlainInsts(b) ==
    {<<b, i>> : i \in {j \in 1..Len(BodyOf(F, b)) :
                        ~BodyOf(F, b)[j].debug /\ ~BodyOf(F, b)[j].pseudo}}

IsRequest(op) == lastRequest'.op = op /\ nRequests' = nRequests + 1

\* C1: two successive getFunctionVector requests on one Embedder of a
\* function with a body return equal vectors.
C1_SuccessiveFunctionVectorsEqual ==
    [][(~F.isDeclaration /\ lastRequest.op = "getFunctionVector"
        /\ IsRequest("getFunctionVector")) => ret' = ret]_vars

\* C2: whatever was requested before, getFunctionVector returns the sum of
\* the block vectors of exactly the blocks reachable from entry, each once.
C2_FunctionVectorIsSumOfReachable ==
    lastRequest.op = "getFunctionVector" =>
        /\ ReachableBlocks(F) \subseteq DOMAIN BBVecMap
        /\ ret = VectorSum(ReachableBlocks(F), BBVecMap)

\* C3: a block that is not reachable from entry is never a key of the block
\* map and none of its instructions is a key of the instruction map.
C3_UnreachableNeverCached ==
    \A b \in BlocksOf(F) \ ReachableBlocks(F) :
        /\ b \notin DOMAIN BBVecMap
        /\ \A k \in DOMAIN InstVecMap : k[1] # b

\* C4: getBBVector on an empty block map runs the full computation: after
\* it every reachable block has a block vector and every non-debug
\* instruction of those blocks has an instruction vector.
C4_BBVectorOnEmptyComputesAll ==
    [][(DOMAIN BBVecMap = {} /\ IsRequest("getBBVector")) =>
          /\ ReachableBlocks(F) \subseteq DOMAIN BBVecMap'
          /\ \A b \in ReachableBlocks(F) : PlainInsts(b) \subseteq DOMAIN InstVecMap']_vars

\* C5: for an external declaration the function vector is the zero vector
\* of the vocabulary's dimension and both maps are empty, after any requests.
C5_DeclarationStaysZero ==
    F.isDeclaration =>
        /\ FuncVector = [c \in 1..VocabDimension(Vocabulary) |-> 0]
        /\ DOMAIN InstVecMap = {}
        /\ DOMAIN BBVecMap = {}
        /\ (lastRequest.op = "getFunctionVector" => ret = FuncVector)
C5_Witness ==
    /\ F.isDeclaration
    /\ nRequests >= 3
    /\ lastRequest.op = "getFunctionVector"
    /\ Len(FuncVector) = MaxDim

\* C6: lookupVocab(key) returns the vocabulary's vector and leaves the miss
\* counter alone when key is present; returns Dimension zeros and adds one
\* to the miss counter when key is absent; never changes the vocabulary.
C6_LookupVocab ==
    [][IsRequest("lookupVocab") =>
         LET key == lastRequest'.arg IN
         /\ Vocabulary' = Vocabulary
         /\ key \in DOMAIN Vocabulary =>
               ret' = Vocabulary[key] /\ VocabMissCounter' = VocabMissCounter
         /\ key \notin DOMAIN Vocabulary =>
               /\ ret' = [c \in 1..VocabDimension(Vocabulary) |-> 0]
               /\ VocabMissCounter' = VocabMissCounter + 1]_vars
C6_Witness ==
    /\ lastRequest.op = "lookupVocab"
    /\ lastRequest.arg \notin DOMAIN Vocabulary
    /\ "integerTy" \in DOMAIN Vocabulary
    /\ VocabMissCounter = 1
    /\ nRequests >= 2

\* C7: every cached instruction vector is zero + lookup(opcode name) +
\* type-category embedding of the result type + one operand-category
\* embedding per operand, repeated operands counted each time.
C7_InstVectorIsSumOfLookups ==
    \A k \in DOMAIN InstVecMap :
        LET I == BodyOf(F, k[1])[k[2]]
            n == Len(I.operands)
        IN InstVecMap[k] =
             [c \in 1..Dimension |->
                 0 + VocabValue(I.opcode)[c] + VocabValue(TypeCategory(I.type))[c]
                 + SumOver(1..n,
                      [j \in 1..n |-> VocabValue(OperandCategory(I.operands[j]))[c]])]
C7_Witness ==
    \E k \in DOMAIN InstVecMap :
        LET I == BodyOf(F, k[1])[k[2]] IN
        /\ Len(I.operands) = 2
        /\ I.operands[1] = I.operands[2]
        /\ {I.opcode, "integerTy", "variable"} \subseteq DOMAIN Vocabulary

\* C8: every cached block vector is the sum of the cached vectors of that
\* block's non-debug, non-pseudo instructions; debug and pseudo instructions
\* are never keys of the instruction map.
C8_BlockVectorIsSumOfInsts ==
    /\ \A b \in DOMAIN BBVecMap :
          /\ PlainInsts(b) \subseteq DOMAIN InstVecMap
          /\ BBVecMap[b] = VectorSum(PlainInsts(b), InstVecMap)
    /\ \A k \in DOMAIN InstVecMap :
          ~BodyOf(F, k[1])[k[2]].debug /\ ~BodyOf(F, k[1])[k[2]].pseudo
C8_Witness ==
    /\ \E b \in DOMAIN BBVecMap :
          /\ Cardinality(PlainInsts(b)) = 2
          /\ \E i \in 1..Len(BodyOf(F, b)) : BodyOf(F, b)[i].debug
    /\ \E b \in DOMAIN BBVecMap :
          /\ Cardinality(PlainInsts(b)) = 2
          /\ \E i \in 1..Len(BodyOf(F, b)) : BodyOf(F, b)[i].pseudo

\* ---------------------------------------- IR2VecVocabAnalysis: properties
\* The lengths of the entries of section s of Doc.
SectionLengths(Doc, s) ==
    {Len(Doc.sections[s].entries[k]) : k \in DOMAIN Doc.sections[s].entries}

\* All three sections present and decodable, each with entries of one
\* non-zero length, the three lengths equal.
WellFormed(Doc) ==
    /\ Doc.kind = "object"
    /\ \A i \in 1..3 : Doc.sections[SectionNames[i]].state = "ok"
    /\ \E d \in 1..MaxDim : \A i \in 1..3 : SectionLengths(Doc, SectionNames[i]) = {d}

\* C9: loading succeeds only if all three sections are present and
\* decodable, each section's entries have one non-zero length and the three
\* section dimensions are equal; in every other case loading returns an
\* error and the result is invalid.
C9_LoadSucceedsOnlyIfWellFormed ==
    lastRun \in {"loadOK", "loadFailed", "aborted"} =>
        /\ lastRun = "loadOK" => WellFormed(FileContent)
        /\ ~WellFormed(FileContent) => lastRun = "loadFailed"
        /\ (lastRun = "loadFailed" /\ Result.present) =>
              ~Result.valid /\ Diagnostics # << >>

\* C10: a load that fails leaves the provider's Vocabulary as it was before
\* the load, and the invalid result holds no entry.
C10_FailedLoadLeavesVocabulary ==
    [][(nRuns' = nRuns + 1 /\ lastRun' \in {"loadFailed", "aborted"}) =>
          /\ AnalysisVocabulary' = AnalysisVocabulary
          /\ lastRun' = "loadFailed" => Result' = InvalidResult]_vars
C10_Witness ==
    /\ lastRun = "loadFailed"
    /\ Result = InvalidResult
    /\ Diagnostics = <<"Vocabulary sections have different dimensions">>
    /\ \A i \in 1..3 : DOMAIN FileContent.sections[SectionNames[i]].entries # {}
    /\ DOMAIN AnalysisVocabulary = {}


\* The sections (1 = Opcodes, 2 = Types, 3 = Arguments, the merge order) of
\* the document that hold key k
SectionsWith(Doc, k) ==
    {i \in 1..3 : k \in DOMAIN Doc.sections[SectionNames[i]].entries}
DocumentKeys(Doc) == UNION {DOMAIN Doc.sections[SectionNames[i]].entries : i \in 1..3}
WeightOf(i) == IF i = 1 THEN Weights.opc ELSE IF i = 2 THEN Weights.type ELSE Weights.arg
\* The array section i of the document gives k, times that section's weight
ScaledEntry(Doc, i, k) ==
    LET v == Doc.sections[SectionNames[i]].entries[k] IN
    [j \in 1..Len(v) |-> v[j] * WeightOf(i)]
FirstOf(S) == CHOOSE i \in S : \A j \in S : i <= j
LastOf(S) == CHOOSE i \in S : \A j \in S : i >= j
Loaded == lastRun = "loadOK" /\ Result.valid

\* C11: after a successful load of a document whose three sections have
\* dimension d (every entry of every section has length d), the merged
\* Vocabulary is non-empty, every entry of it has length d, and the
\* dimension the result reports is d.
C11_MergedDimension ==
    Loaded =>
      \A d \in 1..MaxDim :
        (\A i \in 1..3 : SectionLengths(FileContent, SectionNames[i]) = {d}) =>
          /\ DOMAIN Result.vocab # {}
          /\ \A k \in DOMAIN Result.vocab : Len(Result.vocab[k]) = d
          /\ DimensionOf(Result.vocab) = d
          /\ consumer.call = "getDimension" =>
                consumer.outcome = "value" /\ consumer.dim = d
C11_Witness ==
    /\ Loaded
    /\ \A i \in 1..3 : SectionLengths(FileContent, SectionNames[i]) = {MaxDim}
    /\ Cardinality(DOMAIN Result.vocab) = 4
    /\ consumer = [call |-> "getDimension", outcome |-> "value",
                   vocab |-> EmptyMap, dim |-> MaxDim]

C13_EntriesScaledOnce ==
    (Loaded /\ \A k \in DocumentKeys(FileContent) :
                  Cardinality(SectionsWith(FileContent, k)) = 1) =>
      /\ DOMAIN Result.vocab = DocumentKeys(FileContent)
      /\ \A k \in DOMAIN Result.vocab :
           \E i \in SectionsWith(FileContent, k) :
              Result.vocab[k] = ScaledEntry(FileContent, i, k)
C13_Witness ==
    /\ Loaded
    /\ Weights.opc = 5
    /\ DocumentKeys(FileContent) = {"add", "integerTy", "variable"}
    /\ FileContent.sections["Opcodes"].entries["add"] = <<2, 4>>
    /\ Result.vocab["add"] = <<10, 20>>

\* C14: a run with no supplied vocabulary and no file path emits the
\* configuration error and returns an invalid result without reading a
\* file; reading the contents of that invalid result ends in a failed
\* assertion and gives no value.
C14_NoPathIsConfigurationError ==
    [][/\ (nRuns' = nRuns + 1 /\ DOMAIN AnalysisVocabulary = {} /\ VocabFile = "") =>
            /\ Diagnostics' = Append(Diagnostics, "IR2Vec vocabulary file path not specified")
            /\ Result' = InvalidResult
            /\ FileReads' = FileReads
       /\ (consumer' # consumer /\ consumer'.call # "none" /\ lastRun = "noPath") =>
            consumer'.outcome = "assertion" /\ consumer'.vocab = EmptyMap /\ consumer'.dim = 0]_vars
C14_Witness ==
    /\ lastRun = "noPath"
    /\ Result = InvalidResult
    /\ FileReads = 0
    /\ Diagnostics = <<"IR2Vec vocabulary file path not specified">>
    /\ consumer.call = "getVocabulary" /\ consumer.outcome = "assertion"

\* C18: a provider constructed with a non-empty vocabulary returns on every
\* run, the first and any run after an invalidation, a valid result holding
\* that vocabulary, without reading the file and without a diagnostic.
C18_SuppliedVocabularyOnEveryRun ==
    [][(nRuns' = nRuns + 1 /\ (DOMAIN AnalysisVocabulary # {} \/ lastRun = "supplied")) =>
          /\ Result' = ValidResult(SuppliedVocabulary)
          /\ FileReads' = FileReads
          /\ Diagnostics' = Diagnostics]_vars

\* C19: loading a document in which a section is present but is an empty
\* object ends in a returned error with an invalid result.
C19_EmptySectionIsValidationError ==
    (lastRun \in {"loadOK", "loadFailed", "aborted"} /\ FileContent.kind = "object"
       /\ \E i \in 1..3 : IsEmptySection(FileContent, SectionNames[i])) =>
      lastRun = "loadFailed" /\ (Result.present => Result = InvalidResult)


\* The one key the classification of Op names: "function" for a function,
\* else "pointer" for a pointer-typed value, else "constant" for a constant,
\* else "variable"
OperandKey(Op) ==
    CHOOSE k \in {"function", "pointer", "constant", "variable"} :
      /\ k = "function" <=> Op.isFunction
      /\ k = "pointer" <=> (~Op.isFunction /\ Op.isPointer)
      /\ k = "constant" <=> (~Op.isFunction /\ ~Op.isPointer /\ Op.isConstant)
      /\ k = "variable" <=> (~Op.isFunction /\ ~Op.isPointer /\ ~Op.isConstant)

\* C15: getOperandEmbedding returns, for every combination of the three
\* predicates, the result of looking up exactly one key, chosen by the first
\* match among function, pointer, constant, variable: the vocabulary's vector
\* for that key and no miss, or the zero vector and one miss.
C15_OperandClassification ==
    [][IsRequest("getOperandEmbedding") =>
         LET k == OperandKey(lastRequest'.arg) IN
         /\ ret' = VocabValue(k)
         /\ VocabMissCounter' =
               VocabMissCounter + (IF k \in DOMAIN Vocabulary THEN 0 ELSE 1)]_vars
C15_Witness ==
    /\ nRequests = 3
    /\ lastRequest.op = "getOperandEmbedding"
    /\ lastRequest.arg = OpNull
    /\ "pointer" \in DOMAIN Vocabulary /\ ret = Vocabulary["pointer"]
    /\ ret # Vocabulary["constant"]
    /\ VocabMissCounter = 2


\* C16: for a function with a body, after any requests made before
\* (getBBVector on one block while the maps were empty among them),
\* getBBVecMap returns a map whose keys are exactly the blocks reachable from
\* entry, and getInstVecMap a map whose keys are exactly the instructions of
\* those blocks that the instruction walk yields (no debug instruction).
C16_MapsHoldExactlyReachable ==
    ~F.isDeclaration =>
        /\ lastRequest.op = "getBBVecMap" => DOMAIN ret = ReachableBlocks(F)
        /\ lastRequest.op = "getInstVecMap" =>
              DOMAIN ret = UNION {PlainInsts(b) : b \in ReachableBlocks(F)}

\* C17: once both maps hold entries, getInstVecMap, getBBVecMap and
\* getBBVector of a block that has a block vector leave the instruction map,
\* the block map and the function vector as they are; and getFunctionVector
\* keeps every instruction vector and block vector that was there, with its
\* value.
C17_CachedRequestsDoNotRecompute ==
    [][/\ (DOMAIN InstVecMap # {} /\ DOMAIN BBVecMap # {}
           /\ \/ IsRequest("getInstVecMap")
              \/ IsRequest("getBBVecMap")
              \/ IsRequest("getBBVector") /\ lastRequest'.arg \in DOMAIN BBVecMap) =>
            /\ InstVecMap' = InstVecMap
            /\ BBVecMap' = BBVecMap
            /\ FuncVector' = FuncVector
       /\ IsRequest("getFunctionVector") =>
            /\ \A k \in DOMAIN InstVecMap :
                  k \in DOMAIN InstVecMap' /\ InstVecMap'[k] = InstVecMap[k]
            /\ \A b \in DOMAIN BBVecMap :
                  b \in DOMAIN BBVecMap' /\ BBVecMap'[b] = BBVecMap[b]]_vars
C17_Witness ==
    /\ nRequests = 3
    /\ lastRequest = [op |-> "getBBVector", arg |-> EntryBlock]
    /\ DOMAIN BBVecMap = ReachableBlocks(F)
    /\ Cardinality(ReachableBlocks(F)) >= 2
    /\ ret = BBVecMap[EntryBlock]
    /\ \E c \in 1..Dimension : FuncVector[c] # 0

=============================================================================
